---- MODULE Spec2Model ----
(***************************************************************************)
(* A model of caliban/gke/utils.py: the error trap, the gpu-limit          *)
(* validator, the accelerator-string converters, the zone queriers, the    *)
(* quota translator, the yes/no prompt and the operation poller.           *)
(*                                                                         *)
(* Python strings are sequences of one-character strings, so that the      *)
(* regular expressions and the case conversions are computed character by  *)
(* character.  Python values of different types are tagged records, and a  *)
(* call's outcome is either a returned value or a raised exception.        *)
(***************************************************************************)
EXTENDS Integers, Sequences, FiniteSets, TLC

VARIABLES
  \* trap(error_value, silent)(fn)
  error_value, silent, fn_outcome, trap_out, log_count, trap_calls,
  \* validate_gpu_spec_against_limits(gpu_spec, gpu_limits, limit_type)
  gpu_spec, gpu_limits, valid,
  \* gke_tpu_to_tpuspec(tpu)
  tpu, tpuspec,
  \* gke_gpu_to_gpu(gpu)
  gpu, gpu_out,
  \* resource_limits_from_quotas(quotas)
  quotas, limits,
  \* get_zone_tpu_types / get_zone_gpu_types: the remote's answer, the
  \* function called, its outcome and the number of list calls issued
  zone_rsp, zone_fn, zone_out, list_calls,
  \* user_verify(msg, default)
  default, uv_pc, prompts, invalid, line, ok, uv_out,
  \* wait_for_operation(cluster_api, name, conditions, sleep_sec, message, spinner)
  pc, conditions, spinner, queries, sleeps, rsp, seen, result

trapVars == <<error_value, silent, fn_outcome, trap_out, log_count, trap_calls>>
validateVars == <<gpu_spec, gpu_limits, valid>>
tpuVars == <<tpu, tpuspec>>
gpuVars == <<gpu, gpu_out>>
quotaVars == <<quotas, limits>>
zoneVars == <<zone_rsp, zone_fn, zone_out, list_calls>>
verifyVars == <<default, uv_pc, prompts, invalid, line, ok, uv_out>>
pollVars == <<pc, conditions, spinner, queries, sleeps, rsp, seen, result>>

vars == <<trapVars, validateVars, tpuVars, gpuVars, quotaVars, zoneVars,
          verifyVars, pollVars>>

\* What a function leaves alone: the variables of the other functions
notTrapVars == <<validateVars, tpuVars, gpuVars, quotaVars, zoneVars, verifyVars, pollVars>>
notValidateVars == <<trapVars, tpuVars, gpuVars, quotaVars, zoneVars, verifyVars, pollVars>>
notTpuVars == <<trapVars, validateVars, gpuVars, quotaVars, zoneVars, verifyVars, pollVars>>
notGpuVars == <<trapVars, validateVars, tpuVars, quotaVars, zoneVars, verifyVars, pollVars>>
notQuotaVars == <<trapVars, validateVars, tpuVars, gpuVars, zoneVars, verifyVars, pollVars>>
notZoneVars == <<trapVars, validateVars, tpuVars, gpuVars, quotaVars, verifyVars, pollVars>>
notVerifyVars == <<trapVars, validateVars, tpuVars, gpuVars, quotaVars, zoneVars, pollVars>>
notPollVars == <<trapVars, validateVars, tpuVars, gpuVars, quotaVars, zoneVars, verifyVars>>

----------------------------------------------------------------------------
(* Bounds of the model *)

MaxCalls == 2
MaxLimit == 2
MaxTpuLen == 5
MaxTailLen == 3
MaxQuotas == 2
MaxItems == 2
MaxPrompts == 3
MaxQueries == 3
MaxLineLen == 2

----------------------------------------------------------------------------
(* Python values and call outcomes *)

None == [tag |-> "None"]
Bool(b) == [tag |-> "bool", val |-> b]
Str(s) == [tag |-> "str", val |-> s]
List(xs) == [tag |-> "list", items |-> xs]

\* The variables of a function that has not been called hold NotCalled.
NotCalled == [kind |-> "not called"]
Returned(v) == [kind |-> "return", value |-> v]
Raised(e) == [kind |-> "raise", exc |-> e]

\* A member of an Enum class
Member(enum, name) == [tag |-> enum, name |-> name]

\* Exception classes.  KeyboardInterrupt and SystemExit derive from
\* BaseException only; the others derive from Exception.
ExceptionSubclasses == {"KeyError", "HttpError", "ValueError", "AttributeError", "TypeError"}
BaseOnlyClasses == {"KeyboardInterrupt", "SystemExit"}

\* An exception instance: its class, and whether str(e) succeeds.
Exc(cls) == [cls |-> cls, printable |-> TRUE]
IsException(e) == e.cls \in ExceptionSubclasses

----------------------------------------------------------------------------
(* trap *)

\* What f'exception in call {fn}:\n{e}' evaluates to: str(e) succeeds, or
\* raises TypeError when e.__str__ does not return a string.
FormatOutcome(e) ==
  IF e.printable THEN Returned(Str(e.cls)) ELSE Raised(Exc("TypeError"))

\* Variants of trap: a bare except, and a wrapper that forgets error_value
TrapCatchesAll(outcome, ev, sil) ==
  IF outcome.kind = "raise" THEN Returned(ev) ELSE outcome

TrapReturnsNone(outcome, ev, sil) ==
  IF outcome.kind = "raise" /\ IsException(outcome.exc)
  THEN IF ~sil /\ FormatOutcome(outcome.exc).kind = "raise"
       THEN FormatOutcome(outcome.exc)
       ELSE Returned(None)
  ELSE outcome

\* wrapper(*args, **kwargs): the outcome of the wrapped call becomes the
\* outcome of the wrapper.
Trap(outcome, ev, sil) ==
  IF outcome.kind = "raise" /\ IsException(outcome.exc)
  THEN IF ~sil /\ FormatOutcome(outcome.exc).kind = "raise"
       THEN FormatOutcome(outcome.exc)
       ELSE Returned(ev)
  ELSE outcome

\* Whether the wrapper calls logging.exception on this outcome.
TrapLogs(outcome, sil) ==
  /\ outcome.kind = "raise"
  /\ IsException(outcome.exc)
  /\ ~sil
  /\ FormatOutcome(outcome.exc).kind = "return"

Values == {None, Bool(TRUE), Bool(FALSE)}

FnExceptions ==
  [cls : {"KeyError"} \cup BaseOnlyClasses, printable : BOOLEAN]

FnOutcomes ==
  {Returned(v) : v \in Values} \cup {Raised(e) : e \in FnExceptions}

wrapper ==
  /\ trap_calls < MaxCalls
  /\ \E o \in FnOutcomes :
       /\ fn_outcome' = o
       /\ trap_out' = Trap(o, error_value, silent)
       /\ log_count' = log_count + (IF TrapLogs(o, silent) THEN 1 ELSE 0)
  /\ trap_calls' = trap_calls + 1
  /\ UNCHANGED <<error_value, silent>>
  /\ UNCHANGED notTrapVars

TrapIdle ==
  /\ error_value = None
  /\ silent = TRUE
  /\ fn_outcome = NotCalled
  /\ trap_out = NotCalled
  /\ log_count = 0
  /\ trap_calls = 0

InitTrap ==
  /\ error_value \in Values
  /\ silent \in BOOLEAN
  /\ fn_outcome = NotCalled
  /\ trap_out = NotCalled
  /\ log_count = 0
  /\ trap_calls = 0

----------------------------------------------------------------------------
(* Python strings: characters, classes, case conversion, int() and str() *)

NL == "\n"

LowerLetters ==
  <<"a","b","c","d","e","f","g","h","i","j","k","l","m",
    "n","o","p","q","r","s","t","u","v","w","x","y","z">>
UpperLetters ==
  <<"A","B","C","D","E","F","G","H","I","J","K","L","M",
    "N","O","P","Q","R","S","T","U","V","W","X","Y","Z">>
DigitChars == <<"0","1","2","3","4","5","6","7","8","9">>

Range(f) == {f[i] : i \in DOMAIN f}
IndexOf(seq, c) == CHOOSE i \in DOMAIN seq : seq[i] = c

\* The character classes [0-9], [a-z], [A-Z], [a-z0-9] and [A-Z0-9]
Digits == Range(DigitChars)
Lowers == Range(LowerLetters)
Uppers == Range(UpperLetters)
LowerAlnums == Lowers \cup Digits
UpperAlnums == Uppers \cup Digits

IsDigit(c) == c \in Digits
IsLower(c) == c \in Lowers
IsUpper(c) == c \in Uppers

\* str.upper() and str.lower(), character by character
upper(s) ==
  [i \in 1..Len(s) |->
     IF IsLower(s[i]) THEN UpperLetters[IndexOf(LowerLetters, s[i])] ELSE s[i]]
lower(s) ==
  [i \in 1..Len(s) |->
     IF IsUpper(s[i]) THEN LowerLetters[IndexOf(UpperLetters, s[i])] ELSE s[i]]

\* int(s) of a non-empty string of decimal digits
RECURSIVE int(_)
int(s) ==
  IF Len(s) = 0 THEN 0
  ELSE 10 * int(SubSeq(s, 1, Len(s) - 1)) + (IndexOf(DigitChars, s[Len(s)]) - 1)

\* str(n) of a natural number
RECURSIVE str(_)
str(n) ==
  IF n < 10 THEN <<DigitChars[n + 1]>>
  ELSE Append(str(n \div 10), DigitChars[(n % 10) + 1])

\* All strings over an alphabet, of length at most n
StringsUpTo(alphabet, n) == UNION {[1..m -> alphabet] : m \in 0..n}

\* The number of characters of s from position i on that belong to the class
RECURSIVE RunLength(_, _, _)
RunLength(class, s, i) ==
  IF i <= Len(s) /\ s[i] \in class THEN 1 + RunLength(class, s, i + 1) ELSE 0

\* Whether s continues with the literal lit from position i on
HasLiteral(s, i, lit) ==
  /\ i + Len(lit) - 1 <= Len(s)
  /\ SubSeq(s, i, i + Len(lit) - 1) = lit

\* The pattern character '$' after p matched characters: the end of the
\* string, or just before a newline that ends the string.
DollarMatches(s, p) ==
  \/ p = Len(s)
  \/ p = Len(s) - 1 /\ s[Len(s)] = NL

NoMatch == [matched |-> FALSE]
Match(groups) == [matched |-> TRUE, groupdict |-> groups]

----------------------------------------------------------------------------
(* validate_gpu_spec_against_limits *)

\* caliban.cloud.types.GPU, by member name
K80 == <<"K","8","0">>
P4 == <<"P","4">>
P100 == <<"P","1","0","0">>
T4 == <<"T","4">>
V100 == <<"V","1","0","0">>
GPU == {Member("GPU", n) : n \in {K80, P4, P100, T4, V100}}

GPUSpec(g, c) == [tag |-> "GPUSpec", gpu |-> g, count |-> c]

\* Variant: a count equal to the maximum is refused
ValidateStrict(spec, lim) ==
  IF spec.gpu \notin DOMAIN lim THEN FALSE
  ELSE IF spec.count >= lim[spec.gpu] THEN FALSE
  ELSE TRUE

validate_gpu_spec_against_limits(spec, lim) ==
  IF spec.gpu \notin DOMAIN lim THEN FALSE
  ELSE IF spec.count > lim[spec.gpu] THEN FALSE
  ELSE TRUE

\* The accelerator kinds the model asks about and holds limits for
ModelGPUs == {Member("GPU", K80), Member("GPU", V100)}

LimitMaps == UNION {[ks -> 0..MaxLimit] : ks \in SUBSET ModelGPUs}

validate ==
  /\ valid = NotCalled
  /\ valid' = Bool(validate_gpu_spec_against_limits(gpu_spec, gpu_limits))
  /\ UNCHANGED <<gpu_spec, gpu_limits>>
  /\ UNCHANGED notValidateVars

ValidateIdle ==
  /\ gpu_spec = NotCalled
  /\ gpu_limits = <<>>
  /\ valid = NotCalled

InitValidate ==
  /\ gpu_spec \in {GPUSpec(g, c) : g \in ModelGPUs, c \in 0..(MaxLimit + 1)}
  /\ gpu_limits \in LimitMaps
  /\ valid = NotCalled

----------------------------------------------------------------------------
(* gke_tpu_to_tpuspec *)

\* caliban.cloud.types.TPU, by member name
V2 == <<"V","2">>
V3 == <<"V","3">>
TPU == {Member("TPU", n) : n \in {V2, V3}}

TPUSpec(t, c) == [tag |-> "TPUSpec", tpu |-> t, count |-> c]

\* Enum[name]: the member of that name, or KeyError
EnumLookup(enum, name) ==
  IF \E m \in enum : m.name = name
  THEN Returned(CHOOSE m \in enum : m.name = name)
  ELSE Raised(Exc("KeyError"))

\* re.compile('^(?P<tpu>(v2|v3))-(?P<count>[0-9]+)$').match(s)
tpu_re_match(s) ==
  LET digits == RunLength(Digits, s, 4)
  IN  IF /\ \/ HasLiteral(s, 1, <<"v","2">>)
               \/ HasLiteral(s, 1, <<"v","3">>)
         /\ HasLiteral(s, 3, <<"-">>)
         /\ digits >= 1
         /\ DollarMatches(s, 3 + digits)
      THEN Match([tpu |-> SubSeq(s, 1, 2), count |-> SubSeq(s, 4, 3 + digits)])
      ELSE NoMatch

\* The function under @trap(None): a None match has no groupdict().
tpu_to_tpuspec_body(s) ==
  LET m == tpu_re_match(s)
  IN  IF ~m.matched THEN Raised(Exc("AttributeError"))
      ELSE LET gd == m.groupdict
               member == EnumLookup(TPU, upper(gd.tpu))
           IN  IF member.kind = "raise" THEN member
               ELSE Returned(TPUSpec(member.value, int(gd.count)))

gke_tpu_to_tpuspec(s) == Trap(tpu_to_tpuspec_body(s), None, TRUE)

TpuAlphabet == {"v", "V", "2", "3", "-", "0", NL}

convert_tpu ==
  /\ tpuspec = NotCalled
  /\ tpuspec' = gke_tpu_to_tpuspec(tpu)
  /\ UNCHANGED tpu
  /\ UNCHANGED notTpuVars

TpuIdle ==
  /\ tpu = <<>>
  /\ tpuspec = NotCalled

InitTpu ==
  /\ tpu \in StringsUpTo(TpuAlphabet, MaxTpuLen)
  /\ tpuspec = NotCalled

----------------------------------------------------------------------------
(* gke_gpu_to_gpu *)

NvidiaTesla == <<"n","v","i","d","i","a","-","t","e","s","l","a","-">>

\* re.compile('^nvidia-tesla-(?P<type>[a-z0-9]+)$').match(s)
gpu_re_match(s) ==
  LET start == Len(NvidiaTesla) + 1
      run == RunLength(LowerAlnums, s, start)
  IN  IF /\ HasLiteral(s, 1, NvidiaTesla)
         /\ run >= 1
         /\ DollarMatches(s, Len(NvidiaTesla) + run)
      THEN Match([type |-> SubSeq(s, start, start + run - 1)])
      ELSE NoMatch

gpu_to_gpu_body(s) ==
  LET m == gpu_re_match(s)
  IN  IF ~m.matched THEN Raised(Exc("AttributeError"))
      ELSE EnumLookup(GPU, upper(m.groupdict.type))

gke_gpu_to_gpu(s) == Trap(gpu_to_gpu_body(s), None, TRUE)

GpuAlphabet == {"k", "K", "8", "0", "p", "4", "-", NL}
GpuPrefixes == {<<>>, NvidiaTesla, <<"x">> \o NvidiaTesla, upper(NvidiaTesla)}
GpuStrings ==
  {pre \o tail : pre \in GpuPrefixes, tail \in StringsUpTo(GpuAlphabet, MaxTailLen)}

convert_gpu ==
  /\ gpu_out = NotCalled
  /\ gpu_out' = gke_gpu_to_gpu(gpu)
  /\ UNCHANGED gpu
  /\ UNCHANGED notGpuVars

GpuIdle ==
  /\ gpu = <<>>
  /\ gpu_out = NotCalled

InitGpu ==
  /\ gpu \in GpuStrings
  /\ gpu_out = NotCalled

----------------------------------------------------------------------------
(* resource_limits_from_quotas *)

\* caliban.gke.constants.MAX_GB_PER_CPU
MAX_GB_PER_CPU == 16

CPUS == <<"C","P","U","S">>
DISKS == <<"D","I","S","K","S">>
NVIDIA_PREFIX == <<"N","V","I","D","I","A","_">>
GPUS_SUFFIX == <<"_","G","P","U","S">>

\* re.compile('^NVIDIA_(?P<gpu>[A-Z0-9]+)_GPUS$').match(s)
quota_re_match(s) ==
  LET start == Len(NVIDIA_PREFIX) + 1
      run == RunLength(UpperAlnums, s, start)
  IN  IF /\ HasLiteral(s, 1, NVIDIA_PREFIX)
         /\ run >= 1
         /\ HasLiteral(s, start + run, GPUS_SUFFIX)
         /\ DollarMatches(s, Len(NVIDIA_PREFIX) + run + Len(GPUS_SUFFIX))
      THEN Match([gpu |-> SubSeq(s, start, start + run - 1)])
      ELSE NoMatch

Limit(type, maximum) == [resourceType |-> type, maximum |-> maximum]

\* One pass of the loop body: the limit records quota q appends
limits_of_quota(q) ==
  IF q.metric = CPUS
  THEN <<Limit(<<"c","p","u">>, str(q.limit)),
         Limit(<<"m","e","m","o","r","y">>, str(q.limit * MAX_GB_PER_CPU))>>
  ELSE LET gpu_match == quota_re_match(q.metric)
       IN  IF ~gpu_match.matched THEN <<>>
           ELSE <<Limit(lower(NvidiaTesla) \o lower(gpu_match.groupdict.gpu),
                        str(q.limit))>>

RECURSIVE limits_loop(_, _)
limits_loop(qs, acc) ==
  IF qs = <<>> THEN acc
  ELSE limits_loop(Tail(qs), acc \o limits_of_quota(Head(qs)))

resource_limits_from_quotas(qs) ==
  Trap(Returned(List(limits_loop(qs, <<>>))), None, TRUE)

K80_VWS == <<"K","8","0","_","V","W","S">>
Metrics ==
  {CPUS, DISKS, CPUS \o <<NL>>}
  \cup {pre \o NVIDIA_PREFIX \o model \o GPUS_SUFFIX \o suf :
          pre \in {<<>>, <<"X">>},
          model \in {<<>>, K80, lower(K80), K80_VWS},
          suf \in {<<>>, <<NL>>, <<"X">>}}

QuotaRecords == [metric : Metrics, limit : 0..MaxLimit]

translate ==
  /\ limits = NotCalled
  /\ limits' = resource_limits_from_quotas(quotas)
  /\ UNCHANGED quotas
  /\ UNCHANGED notQuotaVars

QuotaIdle ==
  /\ quotas = <<>>
  /\ limits = NotCalled

InitQuota ==
  /\ quotas \in UNION {[1..n -> QuotaRecords] : n \in 0..MaxQuotas}
  /\ limits = NotCalled

----------------------------------------------------------------------------
(* get_zone_tpu_types, get_zone_gpu_types *)

HasKey(d, key) == key \in DOMAIN d

\* int(x) of a Python int or str
IntVal(n) == [tag |-> "int", val |-> n]
PyInt(x) ==
  IF x.tag = "int" THEN Returned(x.val)
  ELSE IF Len(x.val) >= 1 /\ \A i \in 1..Len(x.val) : IsDigit(x.val[i])
       THEN Returned(int(x.val))
       ELSE Raised(Exc("ValueError"))

\* Variant: a failing entry ends the loop with the specs found so far
RECURSIVE tpu_types_partial(_, _)
tpu_types_partial(items, tpus) ==
  IF items = <<>> THEN Returned(List(tpus))
  ELSE LET t == Head(items)
       IN  IF ~HasKey(t, "type") THEN Returned(List(tpus))
           ELSE LET spec == gke_tpu_to_tpuspec(t.type)
                IN  IF spec.kind = "raise" THEN spec
                    ELSE IF spec.value = None
                         THEN tpu_types_partial(Tail(items), tpus)
                         ELSE tpu_types_partial(Tail(items), Append(tpus, spec.value))

\* for t in rsp['acceleratorTypes']: ...
RECURSIVE tpu_types_loop(_, _)
tpu_types_loop(items, tpus) ==
  IF items = <<>> THEN Returned(List(tpus))
  ELSE LET t == Head(items)
       IN  IF ~HasKey(t, "type") THEN Raised(Exc("KeyError"))
           ELSE LET spec == gke_tpu_to_tpuspec(t.type)
                IN  IF spec.kind = "raise" THEN spec
                    ELSE IF spec.value = None
                         THEN tpu_types_loop(Tail(items), tpus)
                         ELSE tpu_types_loop(Tail(items), Append(tpus, spec.value))

\* The function under @trap(None); answer is the outcome of the list call.
zone_tpu_body(answer) ==
  IF answer.kind = "raise" THEN answer
  ELSE IF ~HasKey(answer.value, "acceleratorTypes") THEN Raised(Exc("KeyError"))
  ELSE tpu_types_loop(answer.value.acceleratorTypes, <<>>)

get_zone_tpu_types(answer) == Trap(zone_tpu_body(answer), None, TRUE)

\* for x in rsp['items']: ...
RECURSIVE gpu_types_loop(_, _)
gpu_types_loop(items, gpus) ==
  IF items = <<>> THEN Returned(List(gpus))
  ELSE LET x == Head(items)
       IN  IF ~HasKey(x, "name") THEN Raised(Exc("KeyError"))
           ELSE LET g == gke_gpu_to_gpu(x.name)
                IN  IF g.kind = "raise" THEN g
                    ELSE IF g.value = None
                         THEN gpu_types_loop(Tail(items), gpus)
                         ELSE IF ~HasKey(x, "maximumCardsPerInstance")
                              THEN Raised(Exc("KeyError"))
                              ELSE LET n == PyInt(x.maximumCardsPerInstance)
                                   IN  IF n.kind = "raise" THEN n
                                       ELSE gpu_types_loop(Tail(items),
                                              Append(gpus, GPUSpec(g.value, n.value)))

zone_gpu_body(answer) ==
  IF answer.kind = "raise" THEN answer
  ELSE IF ~HasKey(answer.value, "items") THEN Raised(Exc("KeyError"))
  ELSE gpu_types_loop(answer.value.items, <<>>)

get_zone_gpu_types(answer) == Trap(zone_gpu_body(answer), None, TRUE)

\* What the remote may answer to the list call
ApiFailures == {Raised(Exc("HttpError")), Raised(Exc("KeyboardInterrupt"))}

TpuTypeStrings ==
  {<<"v","2","-","8">>, <<"v","3","-","3","2">>, <<"v","4","-","8">>}
TpuItems == {[type |-> t] : t \in TpuTypeStrings} \cup {[name |-> <<"v","2","-","8">>]}
TpuAnswers ==
  ApiFailures
  \cup {Returned([nextPageToken |-> <<>>])}
  \cup {Returned([acceleratorTypes |-> items]) :
          items \in UNION {[1..n -> TpuItems] : n \in 0..MaxItems}}

GpuNameStrings ==
  {NvidiaTesla \o lower(K80), NvidiaTesla \o lower(V100),
   NvidiaTesla \o <<"z","9">>}
GpuItems ==
  [name : GpuNameStrings,
   maximumCardsPerInstance : {IntVal(4), Str(<<"8">>), Str(<<"x">>)}]
  \cup {[description |-> NvidiaTesla \o lower(K80)]}
GpuAnswers ==
  ApiFailures
  \cup {Returned([kind |-> <<>>])}
  \cup {Returned([items |-> items]) :
          items \in UNION {[1..n -> GpuItems] : n \in 0..MaxItems}}

call_get_zone_tpu_types ==
  /\ zone_fn = "none"
  /\ \E answer \in TpuAnswers :
       /\ zone_rsp' = answer
       /\ zone_out' = get_zone_tpu_types(answer)
  /\ zone_fn' = "get_zone_tpu_types"
  /\ list_calls' = list_calls + 1
  /\ UNCHANGED notZoneVars

call_get_zone_gpu_types ==
  /\ zone_fn = "none"
  /\ \E answer \in GpuAnswers :
       /\ zone_rsp' = answer
       /\ zone_out' = get_zone_gpu_types(answer)
  /\ zone_fn' = "get_zone_gpu_types"
  /\ list_calls' = list_calls + 1
  /\ UNCHANGED notZoneVars

ZoneIdle ==
  /\ zone_rsp = NotCalled
  /\ zone_fn = "idle"
  /\ zone_out = NotCalled
  /\ list_calls = 0

InitZone ==
  /\ zone_rsp = NotCalled
  /\ zone_fn = "none"
  /\ zone_out = NotCalled
  /\ list_calls = 0

----------------------------------------------------------------------------
(* user_verify *)

Y == <<"y">>
N == <<"n">>

\* Variant: the line is compared without lower()
verify_case_sensitive(l, dflt) ==
  IF Len(l) = 0 THEN Returned(Bool(dflt))
  ELSE IF l \notin {Y, N} THEN [kind |-> "continue"]
  ELSE Returned(Bool(l = Y))

\* What one pass of the loop does with the line input() returned:
\* the value returned, or "continue".
verify_line(l, dflt) ==
  IF Len(lower(l)) = 0 THEN Returned(Bool(dflt))
  ELSE IF lower(l) \notin {Y, N} THEN [kind |-> "continue"]
  ELSE Returned(Bool(lower(l) = Y))

LineAlphabet == {"y", "Y", "n", "N", "x", " "}
Lines == StringsUpTo(LineAlphabet, MaxLineLen)

\* One pass of the loop: input() prompts and reads a line.
read_line ==
  /\ uv_pc = "prompt"
  /\ prompts < MaxPrompts
  /\ \E l \in Lines :
       LET step == verify_line(l, default)
       IN  /\ line' = l
           /\ ok' = lower(l)
           /\ prompts' = prompts + 1
           /\ IF step.kind = "continue"
              THEN /\ invalid' = invalid + 1
                   /\ UNCHANGED <<uv_pc, uv_out>>
              ELSE /\ uv_out' = step
                   /\ uv_pc' = "done"
                   /\ UNCHANGED invalid
  /\ UNCHANGED default
  /\ UNCHANGED notVerifyVars

\* input() at the end of standard input raises EOFError, which nothing traps.
read_eof ==
  /\ uv_pc = "prompt"
  /\ prompts < MaxPrompts
  /\ prompts' = prompts + 1
  /\ uv_out' = Raised(Exc("EOFError"))
  /\ uv_pc' = "done"
  /\ UNCHANGED <<default, invalid, line, ok>>
  /\ UNCHANGED notVerifyVars

VerifyIdle ==
  /\ default = FALSE
  /\ uv_pc = "idle"
  /\ prompts = 0
  /\ invalid = 0
  /\ line = <<>>
  /\ ok = <<>>
  /\ uv_out = NotCalled

InitVerify ==
  /\ default \in BOOLEAN
  /\ uv_pc = "prompt"
  /\ prompts = 0
  /\ invalid = 0
  /\ line = <<>>
  /\ ok = <<>>
  /\ uv_out = NotCalled

----------------------------------------------------------------------------
(* wait_for_operation *)

\* caliban.gke.types.OpStatus, by member name
OpStatus == {"STATUS_UNSPECIFIED", "PENDING", "RUNNING", "DONE", "ABORTING"}

\* The conditions the model passes, and the statuses the remote reports
ModelConditions == {"RUNNING", "DONE", "ABORTING"}
ModelStatuses == {"PENDING", "RUNNING", "DONE", "ABORTING"}

\* condition_strings = [x.name for x in conditions]
condition_strings(conds) == {x : x \in conds}

\* Variant: the default conditions are tested, whatever the caller passed
DefaultConditionsOnly(response, conds) ==
  response.status \in {"DONE", "ABORTING"}

\* rsp['status'] in condition_strings
status_in_conditions(response, conds) ==
  response.status \in condition_strings(conds)

\* Variant: the empty condition list is not tested for
NeverEmpty(conds) == FALSE

\* len(conditions) == 0
no_conditions(conds) == Cardinality(conds) = 0

\* What operations().get(name=name).execute() may do
Responses == [status : ModelStatuses, progress : {0, 1}]
PollAnswers ==
  ApiFailures
  \cup {Returned([progress |-> 0])}
  \cup {Returned(r) : r \in Responses}

\* The outcome of one pass of _wait's loop on the answer of the status
\* query: the response returned, an exception, or "sleep".
wait_pass(answer, conds) ==
  IF answer.kind = "raise" THEN answer
  ELSE IF ~HasKey(answer.value, "status") THEN Raised(Exc("KeyError"))
  ELSE IF status_in_conditions(answer.value, conds) THEN answer
  ELSE [kind |-> "sleep"]

\* The call: the empty condition list returns None at once.
call_wait_for_operation ==
  /\ pc = "start"
  /\ IF no_conditions(conditions)
     THEN /\ result' = Trap(Returned(None), None, TRUE)
          /\ pc' = "done"
     ELSE /\ pc' = "polling"
          /\ UNCHANGED result
  /\ UNCHANGED <<conditions, spinner, queries, sleeps, rsp, seen>>
  /\ UNCHANGED notPollVars

\* One status query and the test of its response
query ==
  /\ pc = "polling"
  /\ queries < MaxQueries
  /\ \E answer \in PollAnswers :
       LET pass == wait_pass(answer, conditions)
       IN  /\ rsp' = answer
           /\ seen' = IF answer.kind = "return" THEN Append(seen, answer.value)
                      ELSE seen
           /\ IF pass.kind = "sleep"
              THEN /\ pc' = "sleeping"
                   /\ UNCHANGED result
              ELSE /\ pc' = "done"
                   /\ result' = Trap(pass, None, TRUE)
  /\ queries' = queries + 1
  /\ UNCHANGED <<conditions, spinner, sleeps>>
  /\ UNCHANGED notPollVars

\* sleep(sleep_sec): sleep_sec is a non-negative interval, so the call only
\* delays the next status query.
do_sleep ==
  /\ pc = "sleeping"
  /\ sleeps' = sleeps + 1
  /\ pc' = "polling"
  /\ UNCHANGED <<conditions, spinner, queries, rsp, seen, result>>
  /\ UNCHANGED notPollVars

PollIdle ==
  /\ pc = "idle"
  /\ conditions = {}
  /\ spinner = FALSE
  /\ queries = 0
  /\ sleeps = 0
  /\ rsp = NotCalled
  /\ seen = <<>>
  /\ result = NotCalled

InitPoll ==
  /\ pc = "start"
  /\ conditions \in SUBSET ModelConditions
  /\ spinner \in BOOLEAN
  /\ queries = 0
  /\ sleeps = 0
  /\ rsp = NotCalled
  /\ seen = <<>>
  /\ result = NotCalled

----------------------------------------------------------------------------
(* Specifications: one per function, the other functions not called *)

Idle(except) ==
  /\ except = "trap" \/ TrapIdle
  /\ except = "validate" \/ ValidateIdle
  /\ except = "tpu" \/ TpuIdle
  /\ except = "gpu" \/ GpuIdle
  /\ except = "quota" \/ QuotaIdle
  /\ except = "zone" \/ ZoneIdle
  /\ except = "verify" \/ VerifyIdle
  /\ except = "poll" \/ PollIdle

TrapInit == InitTrap /\ Idle("trap")
TrapNext == wrapper
SpecTrap == TrapInit /\ [][TrapNext]_vars

ValidateInit == InitValidate /\ Idle("validate")
ValidateNext == validate
SpecValidate == ValidateInit /\ [][ValidateNext]_vars

TpuInit == InitTpu /\ Idle("tpu")
TpuNext == convert_tpu
SpecTpu == TpuInit /\ [][TpuNext]_vars

GpuInit == InitGpu /\ Idle("gpu")
GpuNext == convert_gpu
SpecGpu == GpuInit /\ [][GpuNext]_vars

QuotaInit == InitQuota /\ Idle("quota")
QuotaNext == translate
SpecQuota == QuotaInit /\ [][QuotaNext]_vars

ZoneInit == InitZone /\ Idle("zone")
ZoneNext ==
  \/ call_get_zone_tpu_types
  \/ call_get_zone_gpu_types
SpecZone == ZoneInit /\ [][ZoneNext]_vars

VerifyInit == InitVerify /\ Idle("verify")
VerifyNext ==
  \/ read_line
  \/ read_eof
SpecVerify == VerifyInit /\ [][VerifyNext]_vars

PollInit == InitPoll /\ Idle("poll")
PollNext ==
  \/ call_wait_for_operation
  \/ query
  \/ do_sleep
SpecPoll == PollInit /\ [][PollNext]_vars

----------------------------------------------------------------------------
(* Properties *)

\* The i-th response's status is in the condition set; every status query
\* so far has answered with a response that has a status.
IsTerminal(i) == seen[i].status \in conditions
NoQueryFailed ==
  /\ queries = Len(seen)
  /\ \A i \in 1..Len(seen) : HasKey(seen[i], "status")
\* C1: with a non-empty condition set and no status query failing, the
\* poller stops at the first response whose status is in the set: if that is
\* the n-th response it has issued n queries, slept n-1 times and returned
\* the n-th response unchanged; until then it has not returned, and has
\* slept once after every response but the one it has just received.
C1_PollerStopsAtFirstTerminal ==
  (pc # "start" /\ conditions # {} /\ NoQueryFailed) =>
    IF \E i \in 1..Len(seen) : IsTerminal(i)
    THEN LET n == CHOOSE i \in 1..Len(seen) :
                    IsTerminal(i) /\ \A j \in 1..(i - 1) : ~IsTerminal(j)
         IN  /\ pc = "done"
             /\ queries = n
             /\ Len(seen) = n
             /\ sleeps = n - 1
             /\ result = Returned(seen[n])
    ELSE /\ pc \in {"polling", "sleeping"}
         /\ result = NotCalled
         /\ sleeps = IF pc = "sleeping" THEN queries - 1 ELSE queries

\* C1's case: RUNNING, RUNNING, DONE with the terminal set {DONE}
C1_Witness ==
  /\ pc = "done"
  /\ conditions = {"DONE"}
  /\ queries = 3
  /\ sleeps = 2
  /\ Len(seen) = 3
  /\ seen[1].status = "RUNNING"
  /\ seen[2].status = "RUNNING"
  /\ result = Returned(seen[3])

\* C2: with an empty condition set the poller returns None at once, having
\* issued no status query and slept not at all.
C2_EmptyConditionsReturnNone ==
  conditions = {} =>
    /\ pc \in {"idle", "start", "done"}
    /\ queries = 0
    /\ sleeps = 0
    /\ pc = "done" => result = Returned(None)

C2_Witness ==
  /\ pc = "done"
  /\ conditions = {}
  /\ result = Returned(None)

C5_ValidateAgainstLimits ==
  /\ [](valid # NotCalled =>
          valid = Bool(/\ gpu_spec.gpu \in DOMAIN gpu_limits
                       /\ gpu_spec.count <= gpu_limits[gpu_spec.gpu]))
  /\ [][gpu_limits' = gpu_limits /\ gpu_spec' = gpu_spec]_vars

\* C5's boundary case: a count equal to the maximum succeeds
C5_Witness ==
  /\ valid = Bool(TRUE)
  /\ gpu_spec.count = gpu_limits[gpu_spec.gpu]
  /\ gpu_spec.count > 0

\* The strings v2-<n> and v3-<n>
IsTpuForm(s) ==
  /\ Len(s) >= 4
  /\ s[1] = "v"
  /\ s[2] \in {"2", "3"}
  /\ s[3] = "-"
  /\ \A i \in 4..Len(s) : IsDigit(s[i])
\* C6: a string v2-<n> or v3-<n>, n a string of decimal digits, converts to
\* the TPUSpec of that version and count; every other string converts to
\* None.
C6_TpuConverter ==
  tpuspec # NotCalled =>
    IF IsTpuForm(tpu)
    THEN tpuspec = Returned(TPUSpec(Member("TPU", <<"V", tpu[2]>>),
                                    int(SubSeq(tpu, 4, Len(tpu)))))
    ELSE tpuspec = Returned(None)

\* C7: a string nvidia-tesla-<model> of a known model converts to that GPU
\* kind; every other string converts to None.
C7_GpuConverter ==
  gpu_out # NotCalled =>
    IF \E m \in GPU : gpu = NvidiaTesla \o lower(m.name)
    THEN gpu_out = Returned(CHOOSE m \in GPU : gpu = NvidiaTesla \o lower(m.name))
    ELSE gpu_out = Returned(None)

\* The metrics NVIDIA_<MODEL>_GPUS, and what one quota record emits
IsGpuMetric(m) ==
  /\ Len(m) > Len(NVIDIA_PREFIX) + Len(GPUS_SUFFIX)
  /\ SubSeq(m, 1, Len(NVIDIA_PREFIX)) = NVIDIA_PREFIX
  /\ SubSeq(m, Len(m) - Len(GPUS_SUFFIX) + 1, Len(m)) = GPUS_SUFFIX
  /\ \A i \in (Len(NVIDIA_PREFIX) + 1)..(Len(m) - Len(GPUS_SUFFIX)) :
       (IsUpper(m[i]) \/ IsDigit(m[i]))
ModelOfMetric(m) ==
  SubSeq(m, Len(NVIDIA_PREFIX) + 1, Len(m) - Len(GPUS_SUFFIX))
Emission(q) ==
  IF q.metric = CPUS
  THEN <<[resourceType |-> <<"c","p","u">>, maximum |-> str(q.limit)],
         [resourceType |-> <<"m","e","m","o","r","y">>,
          maximum |-> str(q.limit * MAX_GB_PER_CPU)]>>
  ELSE IF IsGpuMetric(q.metric)
  THEN <<[resourceType |-> NvidiaTesla \o lower(ModelOfMetric(q.metric)),
          maximum |-> str(q.limit)]>>
  ELSE <<>>
RECURSIVE Emissions(_)
Emissions(qs) ==
  IF qs = <<>> THEN <<>> ELSE Emission(Head(qs)) \o Emissions(Tail(qs))
\* C4: the limits are the concatenation, in input order, of what each quota
\* record emits: cpu and memory for CPUS, one nvidia-tesla-<model> limit for
\* NVIDIA_<MODEL>_GPUS, nothing for any other metric.
C4_QuotaTranslation ==
  limits # NotCalled => limits = Returned(List(Emissions(quotas)))

\* The recognized entries of a response, the responses whose processing
\* raises, and the specs of the recognized entries in response order
TpuRecognized(t) == gke_tpu_to_tpuspec(t.type).value # None
GpuRecognized(x) == gke_gpu_to_gpu(x.name).value # None
TpuProcessingFails(r) ==
  \/ ~HasKey(r, "acceleratorTypes")
  \/ \E i \in 1..Len(r.acceleratorTypes) : ~HasKey(r.acceleratorTypes[i], "type")
GpuProcessingFails(r) ==
  \/ ~HasKey(r, "items")
  \/ \E i \in 1..Len(r.items) :
       \/ ~HasKey(r.items[i], "name")
       \/ /\ GpuRecognized(r.items[i])
          /\ PyInt(r.items[i].maximumCardsPerInstance).kind = "raise"
TpuSpecsOf(items) ==
  LET sel == SelectSeq(items, TpuRecognized)
  IN  [i \in 1..Len(sel) |-> gke_tpu_to_tpuspec(sel[i].type).value]
GpuSpecsOf(items) ==
  LET sel == SelectSeq(items, GpuRecognized)
  IN  [i \in 1..Len(sel) |->
         GPUSpec(gke_gpu_to_gpu(sel[i].name).value,
                 PyInt(sel[i].maximumCardsPerInstance).value)]
\* C8: a zone querier issues one list call; an interrupted call aside, it
\* returns None when the call or a step of processing its response fails,
\* and otherwise the converted specs of exactly the recognized entries, in
\* response order.
C8_ZoneQueriers ==
  zone_out # NotCalled =>
    /\ list_calls = 1
    /\ IF zone_rsp.kind = "raise"
       THEN IF zone_rsp.exc.cls \in ExceptionSubclasses
            THEN zone_out = Returned(None)
            ELSE zone_out = zone_rsp
       ELSE IF zone_fn = "get_zone_tpu_types"
       THEN IF TpuProcessingFails(zone_rsp.value)
            THEN zone_out = Returned(None)
            ELSE zone_out =
                   Returned(List(TpuSpecsOf(zone_rsp.value.acceleratorTypes)))
       ELSE IF GpuProcessingFails(zone_rsp.value)
            THEN zone_out = Returned(None)
            ELSE zone_out = Returned(List(GpuSpecsOf(zone_rsp.value.items)))

\* C8's case: of two entries one is unrecognized and dropped
C8_Witness ==
  /\ zone_fn = "get_zone_tpu_types"
  /\ zone_rsp.kind = "return"
  /\ HasKey(zone_rsp.value, "acceleratorTypes")
  /\ Len(zone_rsp.value.acceleratorTypes) = 2
  /\ zone_out.kind = "return"
  /\ zone_out.value # None
  /\ Len(zone_out.value.items) = 1

\* The lines user_verify accepts
ValidLines == {<<>>, <<"y">>, <<"Y">>, <<"n">>, <<"N">>}
\* C9: user_verify has not returned while every line read was invalid; it
\* returns on the first valid line, having prompted once per invalid line
\* and once more: the default on an empty line, True on y or Y, False on n
\* or N.
C9_UserVerify ==
  /\ uv_pc = "prompt" =>
       /\ uv_out = NotCalled
       /\ invalid = prompts
       /\ prompts > 0 => line \notin ValidLines
  /\ (uv_pc = "done" /\ uv_out.kind = "return") =>
       /\ prompts = invalid + 1
       /\ line \in ValidLines
       /\ uv_out.value =
            Bool(IF line = <<>> THEN default ELSE line \in {<<"y">>, <<"Y">>})

C9_Witness ==
  /\ uv_pc = "done"
  /\ invalid = 2
  /\ prompts = 3
  /\ line = <<"Y">>
  /\ uv_out = Returned(Bool(TRUE))

\* C10 as stated: with a non-empty condition set the poller returns only
\* after a status query has returned a status in the set.
C10_ReturnsOnlyOnTerminalStatus ==
  (pc = "done" /\ conditions # {} /\ result.kind = "return") =>
    \E i \in 1..Len(seen) :
      HasKey(seen[i], "status") /\ seen[i].status \in conditions

\* C10 amended: with a non-empty condition set the poller has not returned
\* while it polls or sleeps, and it returns either the response of the last
\* status query, whose status is in the set, or None because the last status
\* query raised an exception derived from Exception or its response had no
\* status (the failure is trapped by trap(None)).
C10_ReturnsOnTerminalStatusOrFailure ==
  conditions # {} =>
    /\ pc \in {"polling", "sleeping"} => result = NotCalled
    /\ (pc = "done" /\ result.kind = "return") =>
         \/ /\ rsp.kind = "return"
            /\ HasKey(rsp.value, "status")
            /\ rsp.value.status \in conditions
            /\ result = rsp
         \/ /\ result = Returned(None)
            /\ \/ rsp.kind = "raise" /\ rsp.exc.cls \in ExceptionSubclasses
               \/ rsp.kind = "return" /\ ~HasKey(rsp.value, "status")

\* C10's case: a failing status query ends the poll with None
C10_Witness ==
  /\ pc = "done"
  /\ conditions # {}
  /\ queries = 2
  /\ rsp = Raised(Exc("HttpError"))
  /\ result = Returned(None)

====
